---------------------------- MODULE Spec2Model ----------------------------
(***************************************************************************)
(* Model of src/Main.js, the AEROCAT Secure Hash Function (ASHF) v1.0.1:   *)
(* enhancedVortexEncrypt / processData / applyAvalancheEffect /            *)
(* createDynamicSBox, together with the verification path (unprotect) that *)
(* the specification describes.                                            *)
(*                                                                         *)
(* Two levels of abstraction are used.                                     *)
(*  - The two hand-written byte functions (the diffusion pass and the      *)
(*    S-box builder) are computed on concrete bytes, exactly as the        *)
(*    JavaScript computes them on a Uint8Array / Array.                    *)
(*  - The WebCrypto primitives (getRandomValues, PBKDF2, AES-GCM, HMAC,    *)
(*    SHA-512) are black boxes.  Their outputs are symbolic terms: two     *)
(*    outputs are equal iff they were computed by the same primitive from  *)
(*    equal inputs, and every term has the byte length the primitive       *)
(*    gives it.  A byte string is a sequence of segments, each a byte      *)
(*    range of a term with the set of bits flipped in it.                  *)
(***************************************************************************)
EXTENDS Integers, Sequences, FiniteSets, TLC

VARIABLES
    rng,      \* number of values drawn so far from crypto.getRandomValues
    calls,    \* the completed enhancedVortexEncrypt calls, in order
    u,        \* the unprotect call in progress (verification path)
    sb,       \* S-box workbench: key material, table, data mapped through it
    av        \* diffusion workbench: two buffers and their diffused images

vars == <<rng, calls, u, sb, av>>

---------------------------------------------------------------------------
(* Bounds of the model *)

\* most enhancedVortexEncrypt calls in one behaviour
MaxCalls == 2
\* longest key material handed to createDynamicSBox
MaxKeyLen == 2
\* longest buffer handed to applyAvalancheEffect on the diffusion workbench
MaxBufLen == 7

(* Program constants *)

SaltLen == 16
IvLen == 12
GcmTagLen == 16
HmacLen == 64
Sha512Len == 64
AesKeyBits == 256
HmacKeyBits == 512
DiffusionRounds == 3
NeighbourOffset == 7
DiffusionMultiplier == 31
SBoxSize == 256
SBoxPrime == 179426549
\* fixed-field minimum of the payload: 16 + 12 + 64 + 64 = 156
MinPayloadLen == SaltLen + IvLen + HmacLen + Sha512Len

Min(a, b) == IF a < b THEN a ELSE b
Max(a, b) == IF a > b THEN a ELSE b

---------------------------------------------------------------------------
(* Byte arithmetic *)

\* a ^ b on non-negative integers (JavaScript's ^ on byte values)
RECURSIVE BitXor(_, _)
BitXor(a, b) ==
    IF a = 0 THEN b
    ELSE IF b = 0 THEN a
    ELSE (((a % 2) + (b % 2)) % 2) + 2 * BitXor(a \div 2, b \div 2)

---------------------------------------------------------------------------
(* applyAvalancheEffect: src/Main.js 195-202.  The buffer is copied into a *)
(* Uint8Array and updated IN PLACE, index by index, for three rounds.      *)
(* Sequences are 1-based, the code's indices 0-based.                      *)

\* one callback of state.forEach: lines 200-201
AvalancheStep(state, index) ==
    LET n == Len(state)
        x == BitXor(state[index + 1], state[((index + NeighbourOffset) % n) + 1])
    IN  [state EXCEPT ![index + 1] = (x * DiffusionMultiplier) % 256]

\* state.forEach(...) from `index` to the end: line 199
RECURSIVE AvalancheRound(_, _)
AvalancheRound(state, index) ==
    IF index >= Len(state) THEN state
    ELSE AvalancheRound(AvalancheStep(state, index), index + 1)

\* for (round = 0; round < 3; round++): line 198
RECURSIVE AvalancheRounds(_, _)
AvalancheRounds(state, round) ==
    IF round >= DiffusionRounds THEN state
    ELSE AvalancheRounds(AvalancheRound(state, 0), round + 1)

applyAvalancheEffect(buffer) == AvalancheRounds(buffer, 0)

---------------------------------------------------------------------------
(* createDynamicSBox: src/Main.js 54-61 *)

\* (i * 179426549) % 256.  JavaScript computes the product exactly (it is
\* below 2^53); the factor is reduced first here only to stay inside
\* TLC's 32-bit integers, which does not change the residue.
PrimeStep(i) == (i * (SBoxPrime % SBoxSize)) % SBoxSize

\* mutant: the destructuring swap written as a plain assignment
SBoxSwap_Assign(sBox, key, i) ==
    LET swapIdx == (key[(i % Len(key)) + 1] + PrimeStep(i)) % SBoxSize
    IN  [sBox EXCEPT ![i + 1] = sBox[swapIdx + 1]]

\* one iteration of the loop: lines 57-58
SBoxSwap(sBox, key, i) ==
    LET swapIdx == (key[(i % Len(key)) + 1] + PrimeStep(i)) % SBoxSize
    IN  [sBox EXCEPT ![i + 1] = sBox[swapIdx + 1], ![swapIdx + 1] = sBox[i + 1]]

\* for (let i = lo; i < hi; i++) swap: the iterations lo .. hi-1 in order.
\* The range is split in halves and the table after the first half is
\* computed (its length read) before the second half starts, which keeps
\* TLC's evaluation shallow; the order of the iterations is the loop's.
RECURSIVE SBoxLoop(_, _, _, _)
SBoxLoop(sBox, key, lo, hi) ==
    IF hi <= lo THEN sBox
    ELSE IF hi = lo + 1 THEN SBoxSwap(sBox, key, lo)
    ELSE LET mid == (lo + hi) \div 2
             half == SBoxLoop(sBox, key, lo, mid)
         IN  IF Len(half) = Len(sBox) THEN SBoxLoop(half, key, mid, hi)
             ELSE half

createDynamicSBox(key) ==
    SBoxLoop([i \in 1..SBoxSize |-> i - 1], key, 0, SBoxSize)

\* data.map(b => sBox[b]): the substitution of section 4.5 on concrete bytes
applyDynamicSubstitution(data, keyMaterial) ==
    LET sBox == createDynamicSBox(keyMaterial)
    IN  [i \in 1..Len(data) |-> sBox[data[i] + 1]]

\* the inverse permutation table of section 4.7, read at one value:
\* the b with sBox[b] = v (0 when no entry of the table holds v)
InverseSBox(sBox, v) ==
    CHOOSE b \in 0..(SBoxSize - 1) :
        \/ sBox[b + 1] = v
        \/ /\ \A c \in 0..(SBoxSize - 1) : sBox[c + 1] # v
           /\ b = 0

\* data.map(b => inverse[b])
invertDynamicSubstitution(data, sBox) ==
    [i \in 1..Len(data) |-> InverseSBox(sBox, data[i])]

---------------------------------------------------------------------------
(* Byte strings over symbolic terms.                                       *)
(* A segment [v, lo, hi, fl] is the bytes lo .. hi-1 of the term v, with   *)
(* the bits in fl (pairs <<byte offset in v, bit>>) flipped.               *)

RECURSIVE TLen(_), BLen(_)

\* length in bytes of a byte string
BLen(bs) ==
    IF bs = <<>> THEN 0
    ELSE (Head(bs).hi - Head(bs).lo) + BLen(Tail(bs))

\* length in bytes of the value a term stands for
TLen(t) ==
    CASE t.k = "bytes"    -> Len(t.b)
      [] t.k = "rand"     -> t.n
      [] t.k = "pbkdf2"   -> t.bits \div 8
      [] t.k = "gcm"      -> BLen(t.pt) + GcmTagLen
      [] t.k = "hmac"     -> HmacLen
      [] t.k = "sha512"   -> Sha512Len
      [] t.k = "subst"    -> BLen(t.of)
      [] t.k = "invsubst" -> BLen(t.of)
      [] t.k = "aval"     -> BLen(t.of)

\* all the bytes of a term, untouched
Whole(t) ==
    IF TLen(t) = 0 THEN <<>>
    ELSE <<[v |-> t, lo |-> 0, hi |-> TLen(t), fl |-> {}]>>

\* a byte string that is exactly the untouched bytes of one term of kind k
IsWhole(bs, k) ==
    /\ Len(bs) = 1
    /\ bs[1].v.k = k
    /\ bs = Whole(bs[1].v)

\* bytes a .. b-1 of the byte string whose head starts at offset off
RECURSIVE SliceFrom(_, _, _, _)
SliceFrom(bs, off, a, b) ==
    IF bs = <<>> THEN <<>>
    ELSE LET s    == Head(bs)
             n    == s.hi - s.lo
             from == Max(a, off)
             to   == Min(b, off + n)
             lo   == s.lo + (from - off)
             hi   == s.lo + (to - off)
             rest == SliceFrom(Tail(bs), off + n, a, b)
         IN  IF from < to
             THEN <<[v |-> s.v, lo |-> lo, hi |-> hi,
                     fl |-> {f \in s.fl : f[1] >= lo /\ f[1] < hi}]>> \o rest
             ELSE rest

\* payload.slice(a, b)
Slice(bs, a, b) == SliceFrom(bs, 0, a, b)

\* the byte string with bit `bit` of byte `pos` flipped
RECURSIVE FlipFrom(_, _, _, _)
FlipFrom(bs, off, pos, bit) ==
    IF bs = <<>> THEN <<>>
    ELSE LET s == Head(bs)
             n == s.hi - s.lo
             f == <<s.lo + (pos - off), bit>>
         IN  IF pos >= off /\ pos < off + n
             THEN <<[s EXCEPT !.fl = (@ \ {f}) \cup ({f} \ @)]>> \o Tail(bs)
             ELSE <<s>> \o FlipFrom(Tail(bs), off + n, pos, bit)

FlipBit(bs, pos, bit) == FlipFrom(bs, 0, pos, bit)

---------------------------------------------------------------------------
(* The WebCrypto primitives, as black boxes *)

\* new TextEncoder().encode(input): the input is given as its UTF-8 bytes
TextEncode(bytes) == Whole([k |-> "bytes", b |-> bytes])

\* crypto.getRandomValues(new Uint8Array(n)): the r-th draw from the CSPRNG.
\* The generator is ideal: two draws never give the same bytes.
getRandomValues(r, n) == Whole([k |-> "rand", id |-> r, n |-> n])

\* crypto.subtle.importKey("raw", encode(key), {name: "PBKDF2"}, ...)
importKey(key) == [k |-> "base", pw |-> key]

\* deriveCryptoKey(baseKey, salt, algorithm, length, usage): a PBKDF2
\* derivation over (secret, salt) whose domain label is the algorithm name
\* (section 4.2).  The usage restricts what the key may do, not its bits.
deriveCryptoKey(baseKey, salt, params) ==
    [k |-> "pbkdf2", pw |-> baseKey.pw, salt |-> salt,
     label |-> params.alg, bits |-> params.bits]

\* PBKDF2 output of one (secret, salt, label) is a stream: a shorter key
\* derived with the same parameters is a prefix of the longer one
IsKeyPrefix(k1, k2) ==
    /\ k1.pw = k2.pw
    /\ k1.salt = k2.salt
    /\ k1.label = k2.label
    /\ k1.bits <= k2.bits

\* exportKeyMaterial(aesKey): the raw bytes of the key
exportKeyMaterial(key) == Whole(key)

\* crypto.subtle.encrypt({name: "AES-GCM", iv, tagLength: 128}, key, data)
encrypt(key, iv, data) == Whole([k |-> "gcm", key |-> key, iv |-> iv, pt |-> data])

\* aeadDecrypt(key, iv, ciphertext+tag): the plaintext, or a failure when
\* the bytes are not the untouched output of encrypt under (key, iv)
decrypt(key, iv, data) ==
    IF IsWhole(data, "gcm") /\ data[1].v.key = key /\ data[1].v.iv = iv
    THEN [ok |-> TRUE, pt |-> data[1].v.pt]
    ELSE [ok |-> FALSE, pt |-> <<>>]

\* crypto.subtle.sign("HMAC", key, data)
sign(key, data) == Whole([k |-> "hmac", key |-> key, msg |-> data])

\* crypto.subtle.digest("SHA-512", data)
digest(data) == Whole([k |-> "sha512", msg |-> data])

---------------------------------------------------------------------------
(* The two byte functions on byte strings.  On concrete bytes they are     *)
(* computed; on the output of a black box they are terms (a byte-wise      *)
(* permutation, and the diffusion pass on at least 16 bytes, are           *)
(* one-to-one and keep the length).                                        *)

diffuse(data) ==
    IF data = <<>> THEN <<>>
    ELSE IF IsWhole(data, "bytes")
    THEN Whole([k |-> "bytes", b |-> applyAvalancheEffect(data[1].v.b)])
    ELSE Whole([k |-> "aval", of |-> data])

substitute(data, keyMaterial) ==
    IF data = <<>> THEN <<>>
    ELSE Whole([k |-> "subst", seed |-> keyMaterial, of |-> data])

unsubstitute(data, keyMaterial) ==
    IF data = <<>> THEN <<>>
    ELSE IF IsWhole(data, "subst") /\ data[1].v.seed = keyMaterial
    THEN data[1].v.of
    ELSE Whole([k |-> "invsubst", seed |-> keyMaterial, of |-> data])

---------------------------------------------------------------------------
(* enhancedVortexEncrypt and processData: src/Main.js 119-188 *)

\* mutant: the integrity tag computed over the substituted bytes
processData_TagAfterSubstitution(data, aesKey, iv, hmacKey) ==
    LET encrypted   == encrypt(aesKey, iv, diffuse(data))
        substituted == substitute(encrypted, exportKeyMaterial(aesKey))
        finalHash   == digest(diffuse(substituted))
        hmac        == sign(hmacKey, substituted)
    IN  [encrypted |-> encrypted, finalHash |-> finalHash, hmac |-> hmac]

processData(data, aesKey, iv, hmacKey) ==
    LET encrypted   == encrypt(aesKey, iv, diffuse(data))
        substituted == substitute(encrypted, exportKeyMaterial(aesKey))
        finalHash   == digest(diffuse(substituted))
        hmac        == sign(hmacKey, encrypted)
    IN  [encrypted |-> encrypted, finalHash |-> finalHash, hmac |-> hmac]

\* the arguments of the two deriveCryptoKey calls: lines 135 and 136
CipherKeyParams == [alg |-> "AES-GCM", bits |-> AesKeyBits, usage |-> "encrypt"]

\* mutant: the second call made with the first call's algorithm name
IntegrityKeyParams_SameLabel ==
    [alg |-> "AES-GCM", bits |-> HmacKeyBits, usage |-> "sign"]

IntegrityKeyParams == [alg |-> "HMAC", bits |-> HmacKeyBits, usage |-> "sign"]

\* mutant: the keys derived without the salt
deriveKeyPair_NoSalt(baseKey, salt) ==
    [aesKey  |-> deriveCryptoKey(baseKey, <<>>, CipherKeyParams),
     hmacKey |-> deriveCryptoKey(baseKey, <<>>, IntegrityKeyParams)]

\* Promise.all([deriveCryptoKey(...), deriveCryptoKey(...)]): lines 134-137
deriveKeyPair(baseKey, salt) ==
    [aesKey  |-> deriveCryptoKey(baseKey, salt, CipherKeyParams),
     hmacKey |-> deriveCryptoKey(baseKey, salt, IntegrityKeyParams)]

\* mutant: the IV drawn once, when the module is loaded
drawNonces_StaticIV(r) ==
    [salt |-> getRandomValues(r, SaltLen), aesIV |-> getRandomValues(1, IvLen)]

\* lines 121-122: the salt and the IV, two draws made by every call
drawNonces(r) ==
    [salt |-> getRandomValues(r, SaltLen), aesIV |-> getRandomValues(r + 1, IvLen)]

\* encodeSecurityPayload(salt, aesIV, hmac, finalHash): its arguments
\* concatenated in the order given
encodeSecurityPayload(salt, aesIV, hmac, finalHash) ==
    salt \o aesIV \o hmac \o finalHash

\* encode(salt, iv, ciphertext, tag, digest) of section 4.7: the layout of
\* section 6, salt | iv | tag | digest | ciphertext
encode(salt, iv, ciphertext, tag, finalDigest) ==
    salt \o iv \o tag \o finalDigest \o ciphertext

Secrets == {"pw", "wrong-pw"}
\* "hello", and a 7-byte input
Plaintexts == {<<104, 101, 108, 108, 111>>, <<1, 2, 3, 4, 5, 6, 7>>}

enhancedVortexEncrypt(input, key) ==
    /\ Len(calls) < MaxCalls
    /\ LET nonces        == drawNonces(rng)
           salt          == nonces.salt
           aesIV         == nonces.aesIV
           baseKey       == importKey(key)
           keys          == deriveKeyPair(baseKey, salt)
           processedData == processData(TextEncode(input), keys.aesKey,
                                        aesIV, keys.hmacKey)
           payload       == encodeSecurityPayload(salt, aesIV,
                                processedData.hmac, processedData.finalHash)
       IN  calls' = Append(calls,
                [input |-> input, key |-> key, salt |-> salt, aesIV |-> aesIV,
                 aesKey |-> keys.aesKey, hmacKey |-> keys.hmacKey,
                 processedData |-> processedData, payload |-> payload])
    /\ rng' = rng + 2
    /\ UNCHANGED <<u, sb, av>>

---------------------------------------------------------------------------
(* Idle values of the three parts of the state *)

NoKey == [k |-> "none"]
NoTamper == [kind |-> "none", pos |-> 0, bit |-> 0]
UIdle ==
    [pc |-> "idle", secret |-> "", src |-> 0, carried |-> FALSE,
     tamper |-> NoTamper, payload |-> <<>>,
     salt |-> <<>>, iv |-> <<>>, tag |-> <<>>, digest |-> <<>>, ct |-> <<>>,
     aesKey |-> NoKey, hmacKey |-> NoKey, substituted |-> <<>>,
     ops |-> <<>>, result |-> "", plaintext |-> <<>>]
SbIdle == [pc |-> "idle"]
AvIdle == [pc |-> "idle"]

---------------------------------------------------------------------------
(* unprotect: the verification path of section 4.7, one step per stage.    *)
(* u.ops logs the operations performed, in order.                          *)

\* the payload of call c as the code assembles it, or with the ciphertext
\* carried as section 3 requires
PayloadOf(c, carried) ==
    IF carried
    THEN encode(calls[c].salt, calls[c].aesIV, calls[c].processedData.encrypted,
                calls[c].processedData.hmac, calls[c].processedData.finalHash)
    ELSE calls[c].payload

FlipBits == {0, 7}
\* byte offsets in every field of the payload (salt, IV, tag, digest,
\* ciphertext), field boundaries included
FlipPositions(payload) ==
    {p \in {0, 16, 27, 28, 92, 155, 156, BLen(payload) - 1} :
        p < BLen(payload)}
CutLengths == {0, 28, 155}

Tampers(payload) ==
    {NoTamper}
    \cup {[kind |-> "flip", pos |-> p, bit |-> b] :
            p \in FlipPositions(payload), b \in FlipBits}
    \cup {[kind |-> "cut", pos |-> n, bit |-> 0] : n \in CutLengths}

Tampered(payload, t) ==
    CASE t.kind = "none" -> payload
      [] t.kind = "flip" -> FlipBit(payload, t.pos, t.bit)
      [] t.kind = "cut"  -> Slice(payload, 0, t.pos)

\* One run per behaviour: a run starts from UIdle and keeps nothing of an
\* earlier one, so a second run would only repeat the states of the first.
UStart(secret, c, carried, t) ==
    /\ u.pc = "idle"
    /\ u' = [UIdle EXCEPT !.pc = "decode", !.secret = secret, !.src = c,
                          !.carried = carried, !.tamper = t,
                          !.payload = Tampered(PayloadOf(c, carried), t)]
    /\ UNCHANGED <<rng, calls, sb, av>>

\* mutant: only the salt and the IV are required to be present
IsMalformed_HeaderOnly(payload) == BLen(payload) < SaltLen + IvLen

\* decode: FormatError below the fixed-field minimum
IsMalformed(payload) == BLen(payload) < MinPayloadLen

UDecode ==
    /\ u.pc = "decode"
    /\ u' = IF IsMalformed(u.payload)
            THEN [u EXCEPT !.pc = "done", !.result = "FormatError",
                           !.ops = Append(@, "decode")]
            ELSE [u EXCEPT !.pc = "derive", !.ops = Append(@, "decode"),
                           !.salt   = Slice(u.payload, 0, SaltLen),
                           !.iv     = Slice(u.payload, SaltLen, SaltLen + IvLen),
                           !.tag    = Slice(u.payload, SaltLen + IvLen,
                                            SaltLen + IvLen + HmacLen),
                           !.digest = Slice(u.payload, SaltLen + IvLen + HmacLen,
                                            MinPayloadLen),
                           !.ct     = Slice(u.payload, MinPayloadLen,
                                            BLen(u.payload))]
    /\ UNCHANGED <<rng, calls, sb, av>>

\* re-derive {cipherKey, integrityKey} from the secret and the extracted salt
UDerive ==
    /\ u.pc = "derive"
    /\ LET keys == deriveKeyPair(importKey(u.secret), u.salt)
       IN  u' = [u EXCEPT !.pc = "verifyTag", !.ops = Append(@, "deriveKey"),
                          !.aesKey = keys.aesKey, !.hmacKey = keys.hmacKey]
    /\ UNCHANGED <<rng, calls, sb, av>>

\* mutant: the mismatch is noted but the path goes on to the digest
UVerifyTag_NoAbort ==
    /\ u.pc = "verifyTag"
    /\ u' = [u EXCEPT !.pc = "verifyDigest", !.ops = Append(@, "hmac")]
    /\ UNCHANGED <<rng, calls, sb, av>>

\* recompute the HMAC over the extracted ciphertext, compare with the tag
UVerifyTag ==
    /\ u.pc = "verifyTag"
    /\ u' = IF sign(u.hmacKey, u.ct) = u.tag
            THEN [u EXCEPT !.pc = "verifyDigest", !.ops = Append(@, "hmac")]
            ELSE [u EXCEPT !.pc = "done", !.result = "IntegrityFailure",
                           !.ops = Append(@, "hmac")]
    /\ UNCHANGED <<rng, calls, sb, av>>

\* recompute the final digest over substitution(ciphertext), compare
UVerifyDigest ==
    /\ u.pc = "verifyDigest"
    /\ LET substituted == substitute(u.ct, exportKeyMaterial(u.aesKey))
       IN  u' = IF digest(diffuse(substituted)) = u.digest
                THEN [u EXCEPT !.pc = "decrypt", !.ops = Append(@, "digest"),
                               !.substituted = substituted]
                ELSE [u EXCEPT !.pc = "done", !.result = "TamperDetected",
                               !.ops = Append(@, "digest")]
    /\ UNCHANGED <<rng, calls, sb, av>>

\* invert the substitution and call aeadDecrypt; the diffusion is not
\* inverted (section 4.3)
UDecrypt ==
    /\ u.pc = "decrypt"
    /\ LET r == decrypt(u.aesKey, u.iv,
                        unsubstitute(u.substituted, exportKeyMaterial(u.aesKey)))
       IN  u' = IF r.ok
                THEN [u EXCEPT !.pc = "done", !.result = "ok",
                               !.plaintext = r.pt,
                               !.ops = Append(@, "aeadDecrypt")]
                ELSE [u EXCEPT !.pc = "done", !.result = "AuthenticationFailure",
                               !.ops = Append(@, "aeadDecrypt")]
    /\ UNCHANGED <<rng, calls, sb, av>>

---------------------------------------------------------------------------
(* The pipeline: protect calls and unprotect runs on their payloads *)

Init ==
    /\ rng = 0
    /\ calls = <<>>
    /\ u = UIdle
    /\ sb = SbIdle
    /\ av = AvIdle

Next ==
    \/ \E input \in Plaintexts, key \in Secrets : enhancedVortexEncrypt(input, key)
    \/ \E secret \in Secrets, c \in 1..Len(calls), carried \in BOOLEAN :
          \E t \in Tampers(PayloadOf(c, carried)) : UStart(secret, c, carried, t)
    \/ UDecode
    \/ UDerive
    \/ UVerifyTag
    \/ UVerifyDigest
    \/ UDecrypt

Spec == Init /\ [][Next]_vars

---------------------------------------------------------------------------
(* S-box workbench: createDynamicSBox and the substitution applied to     *)
(* bounded concrete inputs.                                               *)

KeyByteSamples == {0, 1, 11, 128, 255}
KeyMaterials ==
    UNION {[1..n -> KeyByteSamples] : n \in 1..MaxKeyLen}
DataSamples == {<<>>, <<0>>, <<255, 0, 17>>, <<7, 7, 200, 93, 255>>}

InitSBox ==
    /\ rng = 0
    /\ calls = <<>>
    /\ u = UIdle
    /\ av = AvIdle
    /\ \E key \in KeyMaterials :
          sb = [pc |-> "key", key |-> key, sBox |-> <<>>,
                data |-> <<>>, out |-> <<>>, back |-> <<>>]

BuildSBox ==
    /\ sb.pc = "key"
    /\ sb' = [sb EXCEPT !.pc = "table", !.sBox = createDynamicSBox(sb.key)]
    /\ UNCHANGED <<rng, calls, u, av>>

Substitute(data) ==
    /\ sb.pc = "table"
    /\ sb' = [sb EXCEPT !.pc = "mapped", !.data = data,
                        !.out = applyDynamicSubstitution(data, sb.key)]
    /\ UNCHANGED <<rng, calls, u, av>>

InvertSubstitution ==
    /\ sb.pc = "mapped"
    /\ sb' = [sb EXCEPT !.pc = "inverted",
                        !.back = invertDynamicSubstitution(sb.out, sb.sBox)]
    /\ UNCHANGED <<rng, calls, u, av>>

NextSBox ==
    \/ BuildSBox
    \/ \E data \in DataSamples : Substitute(data)
    \/ InvertSubstitution

SpecSBox == InitSBox /\ [][NextSBox]_vars

---------------------------------------------------------------------------
(* Diffusion workbench: applyAvalancheEffect applied to two different     *)
(* buffers of the same length.                                            *)

BufByteSamples == {3, 200}
Buffers(n) == [1..n -> BufByteSamples]

InitAvalanche ==
    /\ rng = 0
    /\ calls = <<>>
    /\ u = UIdle
    /\ sb = SbIdle
    /\ \E n \in 1..MaxBufLen : \E a \in Buffers(n), b \in Buffers(n) :
          /\ a # b
          /\ av = [pc |-> "in", a |-> a, b |-> b, outA |-> <<>>, outB |-> <<>>]

DiffuseBoth ==
    /\ av.pc = "in"
    /\ av' = [av EXCEPT !.pc = "out",
                        !.outA = applyAvalancheEffect(av.a),
                        !.outB = applyAvalancheEffect(av.b)]
    /\ UNCHANGED <<rng, calls, u, sb>>

NextAvalanche == DiffuseBoth

SpecAvalanche == InitAvalanche /\ [][NextAvalanche]_vars

---------------------------------------------------------------------------
(* Claims about the byte functions *)

IsPermutation(sBox) ==
    /\ Len(sBox) = SBoxSize
    /\ {sBox[i] : i \in 1..SBoxSize} = 0..(SBoxSize - 1)

\* C9: for every non-empty key material the table built by the 256-step
\* swap loop is a permutation of 0..255, mapping data through it keeps the
\* length, and the inverse table undoes the mapping.
C9_SBoxIsPermutation ==
    /\ sb.pc \in {"table", "mapped", "inverted"} => IsPermutation(sb.sBox)
    /\ sb.pc \in {"mapped", "inverted"} => Len(sb.out) = Len(sb.data)
    /\ sb.pc = "inverted" => sb.back = sb.data

C9_Witness ==
    /\ sb.pc = "inverted"
    /\ Len(sb.key) = 2
    /\ sb.data = <<255, 0, 17>>
    /\ sb.out # sb.data
    /\ sb.back = sb.data

\* C10: the diffusion pass loses no information: two different buffers of
\* the same length n >= 1 have two different images of length n.
C10_AvalancheInjective ==
    av.pc = "out" =>
        /\ Len(av.outA) = Len(av.a)
        /\ av.a # av.b => av.outA # av.outB

---------------------------------------------------------------------------
(* Claims about the pipeline *)

Errors == {"IntegrityFailure", "TamperDetected", "AuthenticationFailure", "FormatError"}
Performed(op) == \E i \in 1..Len(u.ops) : u.ops[i] = op
IsPrefixOf(s, t) == Len(s) <= Len(t) /\ SubSeq(t, 1, Len(s)) = s

\* C1: round trip: unprotect(S, protect(S, P)) returns exactly P, with no
\* error and not a diffused form of P.
C1_RoundTrip ==
    (u.pc = "done" /\ ~u.carried /\ u.tamper = NoTamper
        /\ u.secret = calls[u.src].key)
    => (u.result = "ok" /\ u.plaintext = TextEncode(calls[u.src].input))

\* C2: the payload returned by protect is salt(16) | iv(12) | tag(64) |
\* digest(64) | ciphertext at offsets 0, 16, 28, 92, 156; its length is 156
\* plus the length of the ciphertext (plaintext + 16-byte AEAD tag).
C2_PayloadLayout ==
    \A c \in 1..Len(calls) :
        LET p == calls[c].payload
            d == calls[c].processedData
        IN  /\ Slice(p, 0, 16) = calls[c].salt
            /\ Slice(p, 16, 28) = calls[c].aesIV
            /\ Slice(p, 28, 92) = d.hmac
            /\ Slice(p, 92, 156) = d.finalHash
            /\ Slice(p, 156, BLen(p)) = d.encrypted
            /\ BLen(d.encrypted) = Len(calls[c].input) + 16
            /\ BLen(p) = 156 + BLen(d.encrypted)

\* C3: no (cipherKey, IV) pair is used by two protect calls: every call
\* draws its own 16-byte salt and 12-byte IV and derives its cipher key from
\* that salt, so two calls (even with the same secret and plaintext) differ
\* in salt, in IV, in (cipherKey, IV) and in payload.
C3_NoNonceReuse ==
    /\ \A c \in 1..Len(calls) :
          /\ BLen(calls[c].salt) = 16
          /\ BLen(calls[c].aesIV) = 12
          /\ calls[c].aesKey.salt = calls[c].salt
    /\ \A i, j \in 1..Len(calls) :
          i < j =>
            /\ calls[i].salt # calls[j].salt
            /\ calls[i].aesIV # calls[j].aesIV
            /\ <<calls[i].aesKey, calls[i].aesIV>> # <<calls[j].aesKey, calls[j].aesIV>>
            /\ calls[i].payload # calls[j].payload

C3_Witness ==
    /\ Len(calls) >= 2
    /\ calls[1].input = calls[2].input
    /\ calls[1].key = calls[2].key
    /\ calls[1].payload # calls[2].payload

C5_VerificationOrder ==
    LET tagOk    == sign(u.hmacKey, u.ct) = u.tag
        digestOk == digest(diffuse(substitute(u.ct, exportKeyMaterial(u.aesKey))))
                        = u.digest
    IN  /\ IsPrefixOf(u.ops, <<"decode", "deriveKey", "hmac", "digest", "aeadDecrypt">>)
        /\ Performed("digest") => tagOk
        /\ Performed("aeadDecrypt") => tagOk /\ digestOk
        /\ u.result = "IntegrityFailure" =>
              ~tagOk /\ ~Performed("digest") /\ ~Performed("aeadDecrypt")
        /\ u.result = "TamperDetected" =>
              tagOk /\ ~digestOk /\ ~Performed("aeadDecrypt")
        /\ (u.pc = "done" /\ u.carried /\ u.tamper = NoTamper
               /\ u.secret # calls[u.src].key)
           => (u.result = "IntegrityFailure" /\ ~Performed("aeadDecrypt"))

C5_Witness ==
    /\ u.pc = "done"
    /\ u.carried
    /\ u.tamper = NoTamper
    /\ calls[u.src].key = "pw"
    /\ u.secret = "wrong-pw"
    /\ u.result = "IntegrityFailure"
    /\ u.ops = <<"decode", "deriveKey", "hmac">>

\* C6: unprotect rejects every byte sequence shorter than 156 bytes with
\* FormatError, before any key derivation, HMAC, digest or AEAD operation.
C6_FormatRejection ==
    BLen(u.payload) < 156 =>
        /\ IsPrefixOf(u.ops, <<"decode">>)
        /\ u.pc \in {"idle", "decode", "done"}
        /\ u.pc = "done" => u.result = "FormatError"

C6_Witness ==
    /\ u.pc = "done"
    /\ u.tamper.kind = "cut"
    /\ BLen(u.payload) = 155
    /\ u.result = "FormatError"
    /\ u.ops = <<"decode">>

C8_EncryptDataFlow ==
    \A c \in 1..Len(calls) :
        LET d    == calls[c].processedData
            enc  == Whole([k |-> "gcm", key |-> calls[c].aesKey,
                           iv |-> calls[c].aesIV,
                           pt |-> TextEncode(applyAvalancheEffect(calls[c].input))])
            sub  == Whole([k |-> "subst", seed |-> Whole(calls[c].aesKey),
                           of |-> enc])
        IN  /\ d.encrypted = enc
            /\ d.hmac = Whole([k |-> "hmac", key |-> calls[c].hmacKey, msg |-> enc])
            /\ d.finalHash =
                  Whole([k |-> "sha512", msg |-> Whole([k |-> "aval", of |-> sub])])

C8_Witness ==
    /\ Len(calls) >= 1
    /\ calls[1].input = <<104, 101, 108, 108, 111>>
    /\ calls[1].processedData.encrypted[1].v.pt # TextEncode(calls[1].input)
    /\ calls[1].processedData.hmac[1].v.msg = calls[1].processedData.encrypted

=============================================================================
